---- MODULE Spec2Model ----
(***************************************************************************)
(* A model of drisen/mylib (src/src/mylib/mylib.py and                     *)
(* src/src/credentials/credentials.py): the time conversions anyToSecs,    *)
(* millisToSecs, secsToMillis, strfTime and strpSecs, the histogram helper *)
(* buckets and the credential lookup credentials.                          *)
(*                                                                         *)
(* Python values are tagged records.  A str is the sequence of its         *)
(* characters.  A float is modelled as an exact decimal: whole seconds     *)
(* `sec` (floor) and a fraction `n7` counted in units of 10^-7 s, so that  *)
(* one digit below the microsecond is kept; the special classes of float   *)
(* that datetime.fromtimestamp rejects are separate tags.                  *)
(***************************************************************************)
EXTENDS Integers, Sequences, FiniteSets, TLC

VARIABLES pc, op, arg, ret, lst, credFile

vars == <<pc, op, arg, ret, lst, credFile>>

(***************************************************************************)
(* Python values and call outcomes                                         *)
(***************************************************************************)
PyInt(n) == [t |-> "int", n |-> n]
PyBool(b) == [t |-> "bool", b |-> b]
PyFloat(sec, n7) == [t |-> "float", cls |-> "finite", sec |-> sec, n7 |-> n7]
PyFloatSpecial(cls) == [t |-> "float", cls |-> cls]
PyStr(chars) == [t |-> "str", chars |-> chars]
PyNone == [t |-> "NoneType"]
PyTuple(a, b) == [t |-> "tuple", a |-> a, b |-> b]
\* str(x) of a value that is not a str: the text is not spelled out
StrOf(x) == [t |-> "str", of |-> x]

Return(v) == [kind |-> "return", val |-> v]
Raise(e) == [kind |-> "raise", exc |-> e]
NoRet == [kind |-> "none"]

\* isinstance(v, int): bool is a subclass of int
IsInt(v) == v.t \in {"int", "bool"}
IsFloat(v) == v.t = "float"
IsStr(v) == v.t = "str"
IntOf(v) == IF v.t = "bool" THEN (IF v.b THEN 1 ELSE 0) ELSE v.n

(***************************************************************************)
(* Characters and numerals                                                 *)
(***************************************************************************)
DigitChars == <<"0", "1", "2", "3", "4", "5", "6", "7", "8", "9">>

IsDigit(c) == \E i \in 1..10 : DigitChars[i] = c

DigitVal(c) == (CHOOSE i \in 1..10 : DigitChars[i] = c) - 1

DigitChar(n) == DigitChars[n + 1]

AllDigits(s) == \A i \in 1..Len(s) : IsDigit(s[i])

\* int(s) of a digit string
RECURSIVE ParseInt(_)
ParseInt(s) ==
  IF s = <<>> THEN 0
  ELSE 10 * ParseInt(SubSeq(s, 1, Len(s) - 1)) + DigitVal(s[Len(s)])

RECURSIVE Pow10(_)
Pow10(k) == IF k = 0 THEN 1 ELSE 10 * Pow10(k - 1)

\* n written with exactly w digits (n < 10^w), as '%0wd' does
RECURSIVE Digits(_, _)
Digits(n, w) ==
  IF w = 0 THEN <<>>
  ELSE Append(Digits(n \div 10, w - 1), DigitChar(n % 10))

\* s[a:b] of Python, 0-based and clipped to the string
Slice(s, a, b) ==
  SubSeq(s, a + 1, IF b < Len(s) THEN b ELSE Len(s))

(***************************************************************************)
(* calendar.timegm, time.strptime and the civil calendar                   *)
(***************************************************************************)
IsLeap(y) == y % 4 = 0 /\ (y % 100 # 0 \/ y % 400 = 0)

DaysInMonth(y, m) ==
  IF m = 2 THEN (IF IsLeap(y) THEN 29 ELSE 28)
  ELSE IF m \in {4, 6, 9, 11} THEN 30 ELSE 31

\* days from 1970-01-01 to y-m-d in the proleptic Gregorian calendar
DaysFromCivil(y, m, d) ==
  LET yy == IF m <= 2 THEN y - 1 ELSE y
      era == yy \div 400
      yoe == yy - era * 400
      mp == (m + 9) % 12
      doy == (153 * mp + 2) \div 5 + d - 1
      doe == yoe * 365 + yoe \div 4 - yoe \div 100 + doy
  IN era * 146097 + doe - 719468

\* the civil date of a day number: the inverse of DaysFromCivil
CivilFromDays(z0) ==
  LET z == z0 + 719468
      era == z \div 146097
      doe == z - era * 146097
      yoe == (doe - doe \div 1460 + doe \div 36524 - doe \div 146096) \div 365
      doy == doe - (365 * yoe + yoe \div 4 - yoe \div 100)
      mp == (5 * doy + 2) \div 153
      d == doy - (153 * mp + 2) \div 5 + 1
      m == IF mp < 10 THEN mp + 3 ELSE mp - 9
      y == yoe + era * 400 + (IF m <= 2 THEN 1 ELSE 0)
  IN [year |-> y, month |-> m, day |-> d]

\* calendar.timegm of a struct_time: linear in every field
timegm(tm) ==
  ((DaysFromCivil(tm.year, tm.month, 1) + tm.day - 1) * 24 + tm.hour) * 3600
    + tm.minute * 60 + tm.second

\* re: \d{4}-\d{2}-\d{2}T\d{2}:\d{2}:\d{2} against exactly 19 characters
IsDateTimeShape(s) ==
  /\ Len(s) = 19
  /\ \A i \in {1, 2, 3, 4, 6, 7, 9, 10, 12, 13, 15, 16, 18, 19} : IsDigit(s[i])
  /\ s[5] = "-" /\ s[8] = "-" /\ s[11] = "T" /\ s[14] = ":" /\ s[17] = ":"

\* time.strptime(s, '%Y-%m-%dT%H:%M:%S') of a text of that shape:
\* the struct_time, or ValueError for a field out of range
strptime(s) ==
  LET y == ParseInt(SubSeq(s, 1, 4))
      m == ParseInt(SubSeq(s, 6, 7))
      d == ParseInt(SubSeq(s, 9, 10))
      H == ParseInt(SubSeq(s, 12, 13))
      M == ParseInt(SubSeq(s, 15, 16))
      S == ParseInt(SubSeq(s, 18, 19))
  IN IF /\ y >= 1
        /\ m \in 1..12
        /\ d \in 1..31
        /\ H \in 0..23
        /\ M \in 0..59
        /\ S \in 0..61
        /\ d <= DaysInMonth(y, m)
     THEN Return([year |-> y, month |-> m, day |-> d,
                  hour |-> H, minute |-> M, second |-> S])
     ELSE Raise("ValueError")

(***************************************************************************)
(* strpSecs                                                                *)
(***************************************************************************)
\* the length of the longest run of [0-9] that starts s
RECURSIVE DigitRun(_)
DigitRun(s) ==
  IF s # <<>> /\ IsDigit(s[1]) THEN 1 + DigitRun(Tail(s)) ELSE 0

\* re.fullmatch(r'(\d{4}-\d{2}-\d{2}T\d{2}:\d{2}:\d{2})(\.[0-9]+)(.*)', s):
\* group 2 is greedy, and '.' of group 3 matches no line break (the
\* texts modelled hold ASCII digits only)
MatchISO(s) ==
  IF /\ Len(s) >= 21
     /\ IsDateTimeShape(SubSeq(s, 1, 19))
     /\ s[20] = "."
     /\ IsDigit(s[21])
     /\ \A i \in 22..Len(s) : s[i] # "\n"
  THEN LET k == DigitRun(SubSeq(s, 21, Len(s)))
       IN [ok |-> TRUE,
           g1 |-> SubSeq(s, 1, 19),
           g2 |-> SubSeq(s, 20, 20 + k),
           g3 |-> SubSeq(s, 21 + k, Len(s))]
  ELSE [ok |-> FALSE]

\* re.fullmatch(r'[+-][0-9]{4}', zone)
MatchZone(zone) ==
  /\ Len(zone) = 5
  /\ zone[1] \in {"+", "-"}
  /\ AllDigits(SubSeq(zone, 2, 5))

\* float('.ddd') in units of 10^-7 s
FracOf(g2) ==
  LET ds == Tail(g2)
  IN ParseInt(ds) * Pow10(7 - Len(ds))

\* ZoneOffset with the signs exchanged: '+' adds, '-' subtracts
ZoneOffsetFlipped(zone) ==
  (IF zone[1] = "+" THEN 60 ELSE -60)
    * (ParseInt(Slice(zone, 1, 3)) * 60 + ParseInt(Slice(zone, 3, 5)))

\* line 261
ZoneOffset(zone) ==
  (IF zone[1] = "+" THEN -60 ELSE 60)
    * (ParseInt(Slice(zone, 1, 3)) * 60 + ParseInt(Slice(zone, 3, 5)))

\* lines 265-268, once the zone has given the offset
SecsOf(m, offset) ==
  LET tm == strptime(m.g1)
  IN IF tm.kind = "raise" THEN Raise("ValueError")
     ELSE Return(PyFloat(timegm(tm.val) + offset, FracOf(m.g2)))

strpSecs(s) ==
  LET m == MatchISO(s)
  IN IF m.ok
     THEN LET zone == m.g3
          IN IF zone = <<>> THEN Raise("IndexError")
             ELSE IF zone[1] = "Z" THEN SecsOf(m, 0)
             ELSE IF MatchZone(zone) THEN SecsOf(m, ZoneOffset(zone))
             ELSE Raise("ValueError")
     ELSE Raise("ValueError")

(***************************************************************************)
(* float arithmetic on the decimal model                                   *)
(***************************************************************************)
Unit7 == Pow10(7)

FloatZero == PyFloat(0, 0)

FloatAdd(a, b) ==
  PyFloat(a.sec + b.sec + (a.n7 + b.n7) \div Unit7, (a.n7 + b.n7) % Unit7)

FloatSub(a, b) ==
  PyFloat(a.sec - b.sec + (a.n7 - b.n7) \div Unit7, (a.n7 - b.n7) % Unit7)

\* n / 1000.0
DivThousand(n) == PyFloat(n \div 1000, (n % 1000) * 10000)

\* int(x * 1000.0): int() truncates toward zero
TruncMillis(x) ==
  LET floor == x.sec * 1000 + x.n7 \div 10000
  IN IF x.sec < 0 /\ x.n7 % 10000 # 0 THEN floor + 1 ELSE floor

(***************************************************************************)
(* millisToSecs, secsToMillis                                              *)
(***************************************************************************)
millisToSecs(millis, time_delta) == FloatAdd(DivThousand(millis), time_delta)

secsToMillis(t, time_delta) ==
  IF ~IsFloat(t) THEN Raise("ValueError")
  ELSE IF t.cls = "nan" THEN Raise("ValueError")        \* int(nan)
  ELSE IF t.cls = "inf" THEN Raise("OverflowError")     \* int(inf)
  ELSE Return(PyInt(TruncMillis(FloatSub(t, time_delta))))

(***************************************************************************)
(* anyToSecs                                                               *)
(***************************************************************************)
\* anyToSecs with the offset added on the float path too
anyToSecsOffsetOnFloat(t, offset) ==
  IF IsInt(t) THEN Return(FloatAdd(DivThousand(IntOf(t)), offset))
  ELSE IF IsFloat(t)
  THEN Return(IF t.cls = "finite" THEN FloatAdd(t, offset) ELSE t)
  ELSE IF IsStr(t) THEN strpSecs(t.chars)
  ELSE Raise("TypeError")

anyToSecs(t, offset) ==
  IF IsInt(t) THEN Return(FloatAdd(DivThousand(IntOf(t)), offset))
  ELSE IF IsFloat(t) THEN Return(t)
  ELSE IF IsStr(t) THEN strpSecs(t.chars)
  ELSE Raise("TypeError")

(***************************************************************************)
(* home_zone = timezone('US/Eastern') and datetime.fromtimestamp           *)
(***************************************************************************)
EST == -18000
EDT == -14400

\* 0 = Sunday; 1970-01-01 was a Thursday
Weekday(day) == (day + 4) % 7

\* the day number of the n-th Sunday of month m of year y
NthSunday(y, m, n) ==
  LET d1 == DaysFromCivil(y, m, 1)
  IN d1 + ((7 - Weekday(d1)) % 7) + 7 * (n - 1)

\* utcoffset of US/Eastern at a UTC instant, by the rule in force since
\* 2007: EDT from 07:00 UTC of the second Sunday of March to 06:00 UTC of
\* the first Sunday of November.  (Earlier years had other transition
\* days; in their Januaries and Decembers every rule gives EST.)
UtcOffset(sec) ==
  LET y == CivilFromDays(sec \div 86400).year
      start == NthSunday(y, 3, 2) * 86400 + 7 * 3600
      end == NthSunday(y, 11, 1) * 86400 + 6 * 3600
  IN IF start <= sec /\ sec < end THEN EDT ELSE EST

\* the fraction rounded half-even to microseconds, with its carry
RoundMicros(t) ==
  LET q == t.n7 \div 10
      r == t.n7 % 10
      us == IF r > 5 \/ (r = 5 /\ q % 2 = 1) THEN q + 1 ELSE q
  IN IF us = 1000000 THEN [sec |-> t.sec + 1, us |-> 0]
     ELSE [sec |-> t.sec, us |-> us]

\* the fields of the instant sec + us/10^6 at UTC offset off
FieldsAt(ymd, sod, us) ==
  [year |-> ymd.year, month |-> ymd.month, day |-> ymd.day,
   hour |-> sod \div 3600, minute |-> (sod % 3600) \div 60,
   second |-> sod % 60, microsecond |-> us]

AtOffset(sec, off, us) ==
  FieldsAt(CivilFromDays((sec + off) \div 86400), (sec + off) % 86400, us)

LocalDateTime(r) == AtOffset(r.sec, UtcOffset(r.sec), r.us)

\* datetime.fromtimestamp(t, home_zone): the local date-time, or the error
\* CPython raises for a float it cannot convert
fromtimestamp(t) ==
  IF t.cls = "nan" THEN Raise("ValueError")
  ELSE IF t.cls = "inf" THEN Raise("OverflowError")
  ELSE IF t.cls = "year_range" THEN Raise("ValueError")
  ELSE IF t.cls = "gmtime_range" THEN Raise("OSError")
  ELSE Return(LocalDateTime(RoundMicros(t)))

(***************************************************************************)
(* datetime.strftime                                                       *)
(***************************************************************************)
Directive(dt, c) ==
  CASE c = "Y" -> Digits(dt.year, 4)
    [] c = "y" -> Digits(dt.year % 100, 2)
    [] c = "m" -> Digits(dt.month, 2)
    [] c = "d" -> Digits(dt.day, 2)
    [] c = "H" -> Digits(dt.hour, 2)
    [] c = "M" -> Digits(dt.minute, 2)
    [] c = "S" -> Digits(dt.second, 2)
    [] c = "%" -> <<"%">>
    [] OTHER -> <<"%", c>>

RECURSIVE strftime(_, _)
strftime(dt, fmt) ==
  IF fmt = <<>> THEN <<>>
  ELSE IF fmt[1] = "%" /\ Len(fmt) >= 2
  THEN Directive(dt, fmt[2]) \o strftime(dt, SubSeq(fmt, 3, Len(fmt)))
  ELSE <<fmt[1]>> \o strftime(dt, Tail(fmt))

(***************************************************************************)
(* f"{dt.microsecond/1000000.0:.3f}"[-4:]                                  *)
(***************************************************************************)
Million == 1000000

\* The sign of RN(u / 10^6) - u / 10^6, RN the IEEE double nearest the
\* quotient (ties to even): the quotient's binary digits by long division,
\* 53 of them from the first 1, then the round bit and the sticky rest.
\*   r: remainder, n: significant bits taken so far, last: the last one
RECURSIVE DivCmp(_, _, _)
DivCmp(r, n, last) ==
  IF r = 0 THEN 0
  ELSE LET bit == IF 2 * r >= Million THEN 1 ELSE 0
           r2 == 2 * r - bit * Million
       IN IF n = 53
          THEN (IF bit = 0 THEN -1
                ELSE IF r2 # 0 THEN 1
                ELSE IF last = 1 THEN 1 ELSE -1)
          ELSE IF n = 0 /\ bit = 0 THEN DivCmp(r2, 0, 0)
          ELSE DivCmp(r2, n + 1, bit)

\* the thousandths that '.3f' prints for u / 1000000.0: the double's exact
\* value rounded half-even to three decimals
Thousandths(u) ==
  LET k == u \div 1000
      r == u % 1000
      c == DivCmp(u, 0, 0)
      up == \/ r > 500
            \/ r = 500 /\ (c = 1 \/ (c = 0 /\ k % 2 = 1))
  IN IF up THEN k + 1 ELSE k

\* '.3f' gives 'd.ddd'; [-4:] keeps the point and the three decimals
MillisSuffix(u) ==
  LET m == Thousandths(u)
      text == <<DigitChar(m \div 1000), ".">> \o Digits(m % 1000, 3)
  IN SubSeq(text, Len(text) - 3, Len(text))

(***************************************************************************)
(* strfTime                                                                *)
(***************************************************************************)
\* str(t)
PyStrOf(t) == IF IsStr(t) THEN t ELSE StrOf(t)

\* lines 225-236, the value handed to fromtimestamp: the float itself,
\* millisToSecs of an int, strpSecs of a str; "early" is line 236
SecsArg(t) ==
  IF IsFloat(t) THEN Return(t)
  ELSE IF IsInt(t) THEN Return(millisToSecs(IntOf(t), FloatZero))
  ELSE IF IsStr(t) THEN strpSecs(t.chars)
  ELSE [kind |-> "early", val |-> StrOf(t)]

\* lines 230-234: on the str branch a ValueError returns t itself
CatchValueError(t, dt) ==
  IF IsStr(t) /\ dt.kind = "raise" /\ dt.exc = "ValueError"
  THEN [kind |-> "early", val |-> t]
  ELSE dt

\* lines 225-236: the local date-time ("return"), a return from inside the
\* branches ("early"), or the exception that leaves them ("raise")
Converted(t, secs) ==
  IF secs.kind = "return"
  THEN CatchValueError(t, fromtimestamp(secs.val))
  ELSE CatchValueError(t, secs)

LocalTimeOf(t) == Converted(t, SecsArg(t))

\* lines 237-241
Formatted(s, microsecond, millis) ==
  IF millis THEN PyStr(s \o MillisSuffix(microsecond)) ELSE PyStr(s)

\* lines 224-243 around the conversion dt
Finish(t, fmt, millis, dt) ==
  IF dt.kind = "early" THEN Return(dt.val)
  ELSE IF dt.kind = "raise"
  THEN (IF dt.exc = "OSError" THEN Return(PyStrOf(t)) ELSE dt)
  ELSE Return(Formatted(strftime(dt.val, fmt), dt.val.microsecond, millis))

strfTime(t, fmt, millis) == Finish(t, fmt, millis, LocalTimeOf(t))

(***************************************************************************)
(* buckets                                                                 *)
(***************************************************************************)
\* lines 54-59: i after the values below the breakpoint nxt
RECURSIVE Advance(_, _, _)
Advance(sorted, i, nxt) ==
  IF i < Len(sorted) /\ sorted[i + 1] < nxt
  THEN Advance(sorted, i + 1, nxt)
  ELSE i

\* lines 53-63: the loop over the breakpoints and the final entry
RECURSIVE BucketLoop(_, _, _, _, _)
BucketLoop(sorted, lows, i, low, result) ==
  IF lows = <<>>
  THEN Append(result, <<low, Len(sorted) - 1>>)
  ELSE LET nxt == Head(lows)
           j == Advance(sorted, i, nxt)
       IN BucketLoop(sorted, Tail(lows), j, nxt, Append(result, <<low, j - i>>))

\* lst.sort()
Sorted(l) == SortSeq(l, LAMBDA a, b : a < b)

buckets(l, lows) ==
  LET sorted == Sorted(l)
      low == IF Len(sorted) > 0 THEN sorted[1] ELSE 0
  IN BucketLoop(sorted, lows, 0, low, <<>>)

(***************************************************************************)
(* credentials                                                             *)
(*                                                                         *)
(* ~/.credentials.json is [exists, creds]; creds maps a system to its      *)
(* entry: absent, null, a value that is no dict, or a dict, which is the   *)
(* sequence of its (username, password) items in insertion order.          *)
(***************************************************************************)
None == "<None>"

Absent == [k |-> "absent"]
Null == [k |-> "null"]
NotDict == [k |-> "str"]
Dict(items) == [k |-> "dict", items |-> items]

\* entry.get(username, None)
DictGet(items, username) ==
  IF \E i \in 1..Len(items) : items[i][1] = username
  THEN items[CHOOSE i \in 1..Len(items) : items[i][1] = username][2]
  ELSE None

\* entry.popitem(): the item inserted last
PopItem(items) == items[Len(items)]

\* lines 116-120 of mylib.py, 59-63 of credentials.py
Lookup(entry, username) ==
  IF entry.k = "dict" /\ Len(entry.items) > 0
  THEN IF username = None
       THEN Return(PyTuple(PopItem(entry.items)[1], PopItem(entry.items)[2]))
       ELSE Return(PyTuple(username, DictGet(entry.items, username)))
  ELSE Raise("KeyError")

\* creds.get(system, None): a JSON null is None too
EntryMissing(entry) == entry.k \in {"absent", "null"}

\* The whole call.  ans holds what the user types at the prompts: yn1
\* ("create one?"), user, password, yn2 ("add these credentials?"), each
\* the answer that ends its prompt loop.  The result is the outcome and
\* the file as the call leaves it.
credentials(file, system, username, interactive, ans) ==
  IF ~file.exists /\ ~interactive
  THEN [out |-> Raise("FileNotFoundError"), file |-> file]
  ELSE LET creds == IF file.exists THEN file.creds
                    ELSE [x \in DOMAIN file.creds |-> Absent]
           file1 == IF ~file.exists /\ ans.yn1 = "Y"
                    THEN [exists |-> TRUE, creds |-> creds]
                    ELSE file
           entry == creds[system]
       IN IF ~EntryMissing(entry)
          THEN [out |-> Lookup(entry, username), file |-> file1]
          ELSE IF ~interactive
          THEN [out |-> Raise("KeyError"), file |-> file1]
          ELSE LET user == IF username = None THEN ans.user ELSE username
                   made == Dict(<< <<user, ans.password>> >>)
                   creds2 == [creds EXCEPT ![system] = made]
                   file2 == IF ans.yn2 = "Y"
                            THEN [exists |-> TRUE, creds |-> creds2]
                            ELSE file1
               IN [out |-> Lookup(made, user), file |-> file2]

(***************************************************************************)
(* The inputs of the calls                                                 *)
(***************************************************************************)
MaxFracDigits == 3
MaxLen == 3
MaxLows == 2
MaxVal == 2
MaxUsers == 2

DT(y, m, d, H, M, S) ==
  [year |-> y, month |-> m, day |-> d, hour |-> H, minute |-> M, second |-> S]

\* wall-clock fields: valid ones (a leap day and second 60 among them),
\* then fields time.strptime rejects
DateTimes ==
  { DT(1970, 1, 1, 0, 0, 0), DT(2023, 11, 14, 22, 13, 20),
    DT(2023, 7, 4, 12, 0, 0), DT(2024, 2, 29, 23, 59, 59),
    DT(2023, 2, 28, 23, 13, 60), DT(1969, 12, 31, 19, 0, 0),
    DT(2023, 13, 14, 22, 13, 20), DT(2023, 2, 30, 1, 2, 3),
    DT(2023, 2, 28, 24, 0, 0), DT(2023, 2, 28, 23, 13, 62),
    DT(0, 1, 1, 0, 0, 0) }

FewDateTimes ==
  { DT(2023, 11, 14, 22, 13, 20), DT(2023, 7, 4, 12, 0, 0),
    DT(2023, 13, 14, 22, 13, 20) }

\* the digits of a fraction; <<>> is a text without fraction
Fracs ==
  {<<>>, <<1, 2, 3>>}
    \cup UNION { [1..n -> {0, 5}] : n \in 1..MaxFracDigits }

FewFracs == {<<>>, <<5>>}

ZNone == [k |-> "none"]
ZZulu == [k |-> "Z"]
ZOff(sign, hh, mm) == [k |-> "off", sign |-> sign, hh |-> hh, mm |-> mm]
ZRaw(chars) == [k |-> "raw", chars |-> chars]

Zones ==
  { ZNone, ZZulu,
    ZOff("+", 5, 0), ZOff("-", 5, 0), ZOff("+", 0, 0), ZOff("-", 4, 30),
    ZOff("+", 99, 99),
    ZRaw(<<"Z", "x", "y", "z">>), ZRaw(<<"Z", "\n">>),
    ZRaw(<<"+", "0", "5", ":", "0", "0">>), ZRaw(<<"+", "0", "5">>),
    ZRaw(<<"E", "S", "T">>) }

RenderDateTime(d) ==
  Digits(d.year, 4) \o <<"-">> \o Digits(d.month, 2) \o <<"-">>
    \o Digits(d.day, 2) \o <<"T">> \o Digits(d.hour, 2) \o <<":">>
    \o Digits(d.minute, 2) \o <<":">> \o Digits(d.second, 2)

RenderFrac(f) ==
  IF f = <<>> THEN <<>>
  ELSE <<".">> \o [i \in 1..Len(f) |-> DigitChar(f[i])]

RenderZone(z) ==
  CASE z.k = "none" -> <<>>
    [] z.k = "Z" -> <<"Z">>
    [] z.k = "off" -> <<z.sign>> \o Digits(z.hh, 2) \o Digits(z.mm, 2)
    [] z.k = "raw" -> z.chars

ISOText(d, f, z) == RenderDateTime(d) \o RenderFrac(f) \o RenderZone(z)

\* texts of no ISO shape at all
RawTexts ==
  { <<>>,
    <<"g", "a", "r", "b", "a", "g", "e", "-", "s", "t", "r", "i", "n", "g">>,
    <<"n", "o", "t", "-", "a", "-", "d", "a", "t", "e">>,
    <<"2", "0", "2", "3", "-", "1", "1", "-", "1", "4", " ", "2", "2", ":", "1", "3", ":", "2", "0", ".", "5", "Z">>,
    <<"2", "0", "2", "3", "-", "1", "1", "-", "1", "4">> }

\* a text to parse, with the fields it was written from
ISOInputs(dts, fracs, zones) ==
  { [s |-> ISOText(d, f, z),
     src |-> [k |-> "iso", dt |-> d, frac |-> f, zone |-> z]]
      : d \in dts, f \in fracs, z \in zones }

RawInputs == { [s |-> r, src |-> [k |-> "raw"]] : r \in RawTexts }

TextInputs == ISOInputs(DateTimes, Fracs, Zones) \cup RawInputs

FewTexts ==
  { PyStr(i.s) : i \in ISOInputs(FewDateTimes, FewFracs, Zones) \cup RawInputs }

\* the default pattern of strfTime (line 214), ts_format (line 19) and a
\* pattern with literal text and an unknown directive
DefaultFmt ==
  <<"%", "Y", "-", "%", "m", "-", "%", "d", "T", "%", "H", ":", "%", "M", ":", "%", "S">>
ts_format ==
  <<"%", "y", "-", "%", "m", "-", "%", "d", "T", "%", "H", ":", "%", "M", ":", "%", "S">>
OtherFmt ==
  <<"a", "t", " ", "%", "H", ":", "%", "M", " ", "%", "Q">>

Fmts == {DefaultFmt, ts_format, OtherFmt}

\* microsecond fields: around the rounding points of a millisecond, exact
\* binary ties (62500, 187500) and the top of the range
Micros ==
  { 0, 1, 499, 500, 501, 999, 1000, 1499, 1500, 1501, 4500, 62500,
    123456, 187500, 999499, 999500, 999501, 999999 }

\* float seconds: every microsecond field after the epoch, an instant in
\* EST and one in EDT, a negative one, two with a digit below the
\* microsecond, and the floats fromtimestamp cannot convert
Floats ==
  { PyFloat(0, 10 * u) : u \in Micros }
    \cup { PyFloat(1700000000, 5000000), PyFloat(1688000000, 9999990),
           PyFloat(-2, 5000000), PyFloat(0, 9999996), PyFloat(0, 15) }
    \cup { PyFloatSpecial(c) : c \in {"nan", "inf", "year_range", "gmtime_range"} }

\* epoch milliseconds
Ints == { PyInt(0), PyInt(5), PyInt(1500), PyInt(-1), PyInt(86399999),
          PyInt(2000000000), PyBool(TRUE) }

\* values that are no int, float or str
Others == { PyNone, [t |-> "list"] }

Offsets == { FloatZero, PyFloat(2, 5000000), PyFloat(-1, 0) }

AnyToSecsArgs ==
  { [t |-> t, offset |-> o] : t \in Floats \cup Ints \cup Others \cup FewTexts,
                              o \in Offsets }

MillisToSecsArgs ==
  { [millis |-> IntOf(t), time_delta |-> o] : t \in Ints, o \in Offsets }

SecsToMillisArgs ==
  { [t |-> t, time_delta |-> o]
      : t \in { f \in Floats : f.cls \in {"nan", "inf"}
                                  \/ (f.cls = "finite" /\ f.sec \in -2..2) }
                \cup Ints \cup Others \cup {PyStr(<<"g", "a", "r", "b", "a", "g", "e", "-", "s", "t", "r", "i", "n", "g">>)},
        o \in Offsets }

StrfTimeArgs ==
  { [t |-> t, fmt |-> f, millis |-> b]
      : t \in Floats \cup Ints \cup Others \cup FewTexts,
        f \in Fmts, b \in BOOLEAN }

\* lists of values and ascending breakpoints
Lists == UNION { [1..n -> 0..MaxVal] : n \in 0..MaxLen }

Ascending(l) == \A i \in 1..(Len(l) - 1) : l[i] <= l[i + 1]

Lows == { l \in UNION { [1..n -> 0..MaxVal] : n \in 0..MaxLows } : Ascending(l) }

\* the credential file
Systems == {"ncs01", "ncs02"}
Users == {"alice", "bob", "carol"}
Passwords == {"pw1", "pw2"}

Distinct(items) ==
  \A i, j \in 1..Len(items) : items[i][1] = items[j][1] => i = j

Dicts ==
  { Dict(items)
      : items \in { l \in UNION { [1..n -> Users \X Passwords] : n \in 0..MaxUsers }
                      : Distinct(l) } }

Entries == {Absent, Null, NotDict} \cup Dicts

MissingFile == [exists |-> FALSE, creds |-> [x \in Systems |-> Absent]]

Files ==
  {MissingFile}
    \cup { [exists |-> TRUE, creds |-> [x \in Systems |-> IF x = "ncs01" THEN e ELSE Absent]]
             : e \in Entries }

NoAnswers == [yn1 |-> "N", user |-> None, password |-> None, yn2 |-> "N"]

Answers ==
  { [yn1 |-> a, user |-> u, password |-> "pw2", yn2 |-> b]
      : a \in {"Y", "N"}, u \in {"bob", "carol"}, b \in {"Y", "N"} }

CredentialsArgs ==
  { [system |-> x, username |-> u, interactive |-> FALSE, ans |-> NoAnswers]
      : x \in Systems, u \in Users \cup {None} }
    \cup { [system |-> x, username |-> u, interactive |-> TRUE, ans |-> a]
             : x \in Systems, u \in {"alice", None}, a \in Answers }

(***************************************************************************)
(* The calls                                                               *)
(***************************************************************************)
Init ==
  /\ pc = "call"
  /\ ret = NoRet
  /\ \/ op = "anyToSecs" /\ arg \in AnyToSecsArgs
        /\ lst = <<>> /\ credFile = MissingFile
     \/ op = "millisToSecs" /\ arg \in MillisToSecsArgs
        /\ lst = <<>> /\ credFile = MissingFile
     \/ op = "secsToMillis" /\ arg \in SecsToMillisArgs
        /\ lst = <<>> /\ credFile = MissingFile
     \/ op = "strfTime" /\ arg \in StrfTimeArgs
        /\ lst = <<>> /\ credFile = MissingFile
     \/ op = "strpSecs" /\ arg \in TextInputs
        /\ lst = <<>> /\ credFile = MissingFile
     \/ op = "buckets" /\ arg \in { [lows |-> l] : l \in Lows }
        /\ lst \in Lists /\ credFile = MissingFile
     \/ op = "credentials" /\ arg \in CredentialsArgs
        /\ lst = <<>> /\ credFile \in Files

Called(name) == pc = "call" /\ op = name

Done(name) == pc = "done" /\ op = name

AnyToSecs ==
  /\ Called("anyToSecs")
  /\ ret' = anyToSecs(arg.t, arg.offset)
  /\ pc' = "done"
  /\ UNCHANGED <<op, arg, lst, credFile>>

MillisToSecs ==
  /\ Called("millisToSecs")
  /\ ret' = Return(millisToSecs(arg.millis, arg.time_delta))
  /\ pc' = "done"
  /\ UNCHANGED <<op, arg, lst, credFile>>

SecsToMillis ==
  /\ Called("secsToMillis")
  /\ ret' = secsToMillis(arg.t, arg.time_delta)
  /\ pc' = "done"
  /\ UNCHANGED <<op, arg, lst, credFile>>

StrfTime ==
  /\ Called("strfTime")
  /\ ret' = strfTime(arg.t, arg.fmt, arg.millis)
  /\ pc' = "done"
  /\ UNCHANGED <<op, arg, lst, credFile>>

StrpSecs ==
  /\ Called("strpSecs")
  /\ ret' = strpSecs(arg.s)
  /\ pc' = "done"
  /\ UNCHANGED <<op, arg, lst, credFile>>

Buckets ==
  /\ Called("buckets")
  /\ ret' = Return(buckets(lst, arg.lows))
  /\ lst' = Sorted(lst)
  /\ pc' = "done"
  /\ UNCHANGED <<op, arg, credFile>>

Credentials ==
  /\ Called("credentials")
  /\ LET r == credentials(credFile, arg.system, arg.username,
                          arg.interactive, arg.ans)
     IN /\ ret' = r.out
        /\ credFile' = r.file
  /\ pc' = "done"
  /\ UNCHANGED <<op, arg, lst>>

Next ==
  \/ AnyToSecs
  \/ MillisToSecs
  \/ SecsToMillis
  \/ StrfTime
  \/ StrpSecs
  \/ Buckets
  \/ Credentials

Spec == Init /\ [][Next]_vars

(***************************************************************************)
(* Properties                                                              *)
(***************************************************************************)
Returned == ret.kind = "return"

Raised(e) == ret.kind = "raise" /\ ret.exc = e

SameOutcome(a, b) ==
  /\ a.kind = b.kind
  /\ a.kind = "raise" => a.exc = b.exc
  /\ a.kind = "return" => a.val = b.val

\* the wall-clock fields are those of a real date-time, second 60 and 61
\* included
ValidFields(d) ==
  /\ d.year >= 1
  /\ d.month \in 1..12
  /\ d.day \in 1..DaysInMonth(d.year, d.month)
  /\ d.hour \in 0..23
  /\ d.minute \in 0..59
  /\ d.second \in 0..61

\* the epoch seconds of wall-clock fields read as UTC, counted year by
\* year and month by month from 1970
YearDays(y) == IF IsLeap(y) THEN 366 ELSE 365

RECURSIVE DaysToYear(_)
DaysToYear(y) ==
  IF y = 1970 THEN 0
  ELSE IF y > 1970 THEN DaysToYear(y - 1) + YearDays(y - 1)
  ELSE DaysToYear(y + 1) - YearDays(y)

RECURSIVE DaysToMonth(_, _)
DaysToMonth(y, m) ==
  IF m = 1 THEN 0 ELSE DaysToMonth(y, m - 1) + DaysInMonth(y, m - 1)

EpochSeconds(d) ==
  (DaysToYear(d.year) + DaysToMonth(d.year, d.month) + d.day - 1) * 86400
    + d.hour * 3600 + d.minute * 60 + d.second

\* the decimal value of fraction digits, in units of 10^-7 s
RECURSIVE FracValue(_)
FracValue(f) ==
  IF f = <<>> THEN 0
  ELSE f[1] * Pow10(6) + FracValue(Tail(f)) \div 10

\* the seconds a zone suffix stands for
ZoneSeconds(z) ==
  IF z.k = "Z" THEN 0
  ELSE IF z.sign = "+" THEN 0 - 60 * (60 * z.hh + z.mm)
  ELSE 60 * (60 * z.hh + z.mm)

\* the grammar: date-time, optional '.digits', then exactly 'Z' or a sign
\* followed by four digits
GrammarTail(rest) ==
  IF rest # <<>> /\ rest[1] = "."
  THEN /\ DigitRun(Tail(rest)) >= 1
       /\ LET zone == SubSeq(rest, 2 + DigitRun(Tail(rest)), Len(rest))
          IN zone = <<"Z">> \/ MatchZone(zone)
  ELSE rest = <<"Z">> \/ MatchZone(rest)

InGrammar(s) ==
  /\ Len(s) >= 20
  /\ IsDateTimeShape(SubSeq(s, 1, 19))
  /\ GrammarTail(SubSeq(s, 20, Len(s)))

\* a strpSecs call on a text written from valid fields with a well-formed
\* zone suffix
WellFormedCall ==
  /\ Done("strpSecs")
  /\ arg.src.k = "iso"
  /\ arg.src.zone.k \in {"Z", "off"}
  /\ ValidFields(arg.src.dt)

\* C1: strfTime never raises: every call ends by returning a str, and a str
\* argument that strpSecs fails on, whatever the error, is returned as it is.
C1_NeverRaises ==
  Done("strfTime") =>
    /\ Returned
    /\ IsStr(ret.val)
    /\ (IsStr(arg.t) /\ strpSecs(arg.t.chars).kind = "raise") => ret.val = arg.t

\* C2: strpSecs is strict: for every text outside the grammar the call
\* fails with ValueError; it neither returns a value nor raises another
\* error.
C2_StrictParser ==
  (Done("strpSecs") /\ ~InGrammar(arg.s)) => Raised("ValueError")

\* C3: the fraction is optional: a valid date-time text without fraction,
\* followed by 'Z' or +HHMM/-HHMM, parses to the whole-second instant, the
\* value of the same text with '.0' before the zone.
C3_FractionOptional ==
  (WellFormedCall /\ arg.src.frac = <<>>) =>
    /\ Returned
    /\ ret.val.n7 = 0
    /\ SameOutcome(ret, strpSecs(ISOText(arg.src.dt, <<0>>, arg.src.zone)))

\* s truncated to whole seconds
Truncated(t) == IF t.sec < 0 /\ t.n7 # 0 THEN t.sec + 1 ELSE t.sec

\* C4: round trip: for a float instant s, strfTime(s, '%Y-%m-%dT%H:%M:%S')
\* followed by 'Z' is parsed by strpSecs, which returns s truncated to whole
\* seconds.
C4_RoundTrip ==
  (/\ Done("strfTime")
   /\ IsFloat(arg.t) /\ arg.t.cls = "finite"
   /\ arg.fmt = DefaultFmt /\ ~arg.millis) =>
    /\ Returned
    /\ SameOutcome(strpSecs(ret.val.chars \o <<"Z">>),
                   Return(PyFloat(Truncated(arg.t), 0)))

\* C5: zone arithmetic: with W the epoch seconds of the wall-clock fields
\* read as UTC and f the fraction, 'Z' gives W + f, '+HHMM' gives
\* W + f - 60*(60*HH + MM) and '-HHMM' gives W + f + 60*(60*HH + MM); the
\* fraction counts by its decimal value, so a further digit 0 changes
\* nothing.
C5_ZoneArithmetic ==
  (WellFormedCall /\ arg.src.frac # <<>>) =>
    /\ Returned
    /\ ret.val.sec = EpochSeconds(arg.src.dt) + ZoneSeconds(arg.src.zone)
    /\ ret.val.n7 = FracValue(arg.src.frac)
    /\ SameOutcome(ret, strpSecs(ISOText(arg.src.dt, Append(arg.src.frac, 0),
                                         arg.src.zone)))

\* the documented reference call: '2023-11-14T22:13:20.123+0500' gives
\* 1700000000 - 18000 + 0.123
C5_Witness ==
  /\ WellFormedCall
  /\ arg.src.dt = DT(2023, 11, 14, 22, 13, 20)
  /\ arg.src.frac = <<1, 2, 3>>
  /\ arg.src.zone = ZOff("+", 5, 0)
  /\ Returned
  /\ ret.val.sec = 1699982000
  /\ ret.val.n7 = 1230000

\* C6: the offset of anyToSecs counts on the int path only: an int gives
\* value/1000 + offset, a float is returned unchanged for every offset, and
\* a text gives the outcome of strpSecs for every offset.
C6_OffsetAsymmetry ==
  Done("anyToSecs") =>
    /\ IsInt(arg.t) =>
         /\ Returned
         /\ ret.val.sec * 1000 + ret.val.n7 \div 10000
              = IntOf(arg.t) + arg.offset.sec * 1000 + arg.offset.n7 \div 10000
         /\ ret.val.n7 % 10000 = arg.offset.n7 % 10000
    /\ IsFloat(arg.t) => (Returned /\ ret.val = arg.t)
    /\ IsStr(arg.t) => SameOutcome(ret, strpSecs(arg.t.chars))

\* a float passed with an offset that is not zero comes back unchanged
C6_Witness ==
  /\ Done("anyToSecs")
  /\ arg.t = PyFloat(1700000000, 5000000)
  /\ arg.offset = PyFloat(2, 5000000)
  /\ Returned
  /\ ret.val = PyFloat(1700000000, 5000000)

\* the error kind of anyToSecs for a value of a wrong type, and that of
\* strpSecs for a text of a wrong shape
TypeKind == anyToSecs(PyNone, FloatZero).exc
FormatError == strpSecs(<<"n", "o">>).exc

\* C7: wrong types fail with one TypeKind error: anyToSecs of a value that
\* is no int, float or str and secsToMillis of a value that is no float
\* raise the same error kind, which is not the one strpSecs raises on bad
\* text.
C7_TypeKind ==
  /\ (Done("anyToSecs") /\ arg.t \in Others) => Raised(TypeKind)
  /\ (Done("secsToMillis") /\ ~IsFloat(arg.t)) =>
       (Raised(TypeKind) /\ ret.exc # FormatError)

\* C8: the millisecond suffix is a truncation: with millis set and u the
\* microsecond field of the local date-time, the text after the formatted
\* pattern is '.' and floor(u/1000) in three digits, for every u.
C8_MillisTruncated ==
  (/\ Done("strfTime") /\ arg.millis
   /\ LocalTimeOf(arg.t).kind = "return") =>
    /\ Returned
    /\ ret.val.chars
         = strftime(LocalTimeOf(arg.t).val, arg.fmt) \o <<".">>
             \o Digits(LocalTimeOf(arg.t).val.microsecond \div 1000, 3)

RECURSIVE SumCounts(_)
SumCounts(r) == IF r = <<>> THEN 0 ELSE Head(r)[2] + SumCounts(Tail(r))

\* C9: the last entry of buckets counts the values >= the top breakpoint,
\* so the counts add up to len(lst) and none is negative.
C9_HistogramCounts ==
  Done("buckets") =>
    /\ ret.val[Len(ret.val)][2]
         = Cardinality({ i \in 1..Len(lst) : lst[i] >= ret.val[Len(ret.val)][1] })
    /\ SumCounts(ret.val) = Len(lst)
    /\ \A k \in 1..Len(ret.val) : ret.val[k][2] >= 0

\* C10: without a username, credentials returns the first (username,
\* password) defined for the system in the stored map, however many
\* usernames the entry holds.
C10_FirstUsername ==
  (/\ Done("credentials")
   /\ arg.username = None
   /\ credFile.exists
   /\ credFile.creds[arg.system].k = "dict"
   /\ Len(credFile.creds[arg.system].items) > 0) =>
    /\ Returned
    /\ ret.val = PyTuple(credFile.creds[arg.system].items[1][1],
                         credFile.creds[arg.system].items[1][2])

====
